---- MODULE Spec2Model ----
(***************************************************************************)
(* Prompt construction of the telemarketing assistant                      *)
(* (src/telemarketing_assistant/scripts/helpers.py):                       *)
(*   build_global_context   ranks the features of a batch by mean |impact| *)
(*                          and renders the global (system) prompt;        *)
(*   build_customer_prompt  renders one customer's prompt.                 *)
(*                                                                         *)
(* Text.  A piece is a string.  A word is a sequence of pieces, read as    *)
(* their concatenation.  A line is a sequence of words, read as the words  *)
(* joined by blanks (indentation is not kept).  A text is a sequence of    *)
(* lines.  A Python str is a text of at least one line: "" is one empty    *)
(* line.  Characters outside ASCII in the source are written in ASCII.     *)
(*                                                                         *)
(* Floats.  The ranking adds, divides and compares impacts, so an impact   *)
(* of a batch is a binary float: an integer kept to MantissaBits           *)
(* significant bits, every operation rounding to nearest, ties to even     *)
(* (IEEE 754, with the precision scaled down from 53 bits).  The customer  *)
(* prompt only formats numbers, so there a number is a decimal fraction:   *)
(* an impact in units of 0.0001, a probability in units of 0.00001.        *)
(***************************************************************************)
EXTENDS Integers, Sequences, FiniteSets, TLC

VARIABLES
    df,                 \* build_global_context: df["drivers"], one driver list per customer
    feature_playbook,   \* its feature_playbook argument
    top_n,              \* its top_n argument
    rules_text,         \* its rules_text argument
    tie_order,          \* how this build's unstable sort orders equal keys
    row,                \* build_customer_prompt: its row argument
    driver_list,        \* its driver_list argument
    extra_context_cols, \* its extra_context_cols argument
    name_field,         \* its name_field argument
    cust_playbook,      \* its feature_playbook argument
    pc,                 \* "start", "returned" or "raised"
    error,              \* the exception raised, "" when none
    top_features,       \* build_global_context's top_features
    features_lines,     \* build_global_context's lines
    global_prompt,      \* build_global_context's result
    driver_lines,       \* build_customer_prompt's driver_lines
    prompt              \* build_customer_prompt's result

vars == << df, feature_playbook, top_n, rules_text, tie_order, row, driver_list,
           extra_context_cols, name_field, cust_playbook, pc, error,
           top_features, features_lines, global_prompt, driver_lines, prompt >>

global_inputs == << df, feature_playbook, top_n, rules_text, tie_order >>

customer_inputs == << row, driver_list, extra_context_cols, name_field, cust_playbook >>

global_results == << top_features, features_lines, global_prompt >>

customer_results == << driver_lines, prompt >>

----------------------------------------------------------------------------
(* Bounds of the model *)

\* significant bits of a float of the model
MantissaBits == 3

\* customers of a batch, drivers of one customer (ranking)
MaxCustomers == 3

MaxDrivers == 2

\* the largest top_n tried
MaxTopN == 3

\* customers of a batch with malformed entries
MaxDirtyCustomers == 2

\* customers of a batch whose prompt is rendered
MaxPromptCustomers == 2

\* drivers of a customer prompt (above 5, the slots of the output format)
MaxDriverList == 6

----------------------------------------------------------------------------
(* Text *)

\* the sequence s with its elements evaluated once, not at every use
AsTuple(s) == s \o <<>>

\* a line of plain words
Ln(ws) == AsTuple([i \in 1..Len(ws) |-> <<ws[i]>>])

\* str.join("\n", lines): the empty list joins to "", one empty line
JoinLines(lines) == IF lines = <<>> THEN << <<>> >> ELSE lines

RECURSIVE Concat(_)
\* the concatenation of a sequence of sequences
Concat(ss) == IF ss = <<>> THEN <<>> ELSE Head(ss) \o Concat(Tail(ss))

\* whether the phrase (a sequence of words) occurs in a line of the text
ContainsPhrase(text, phrase) ==
    \E l \in 1..Len(text) :
        \E i \in 0..(Len(text[l]) - Len(phrase)) :
            \A k \in 1..Len(phrase) : text[l][i + k] = phrase[k]

DigitChars == <<"0", "1", "2", "3", "4", "5", "6", "7", "8", "9">>

RECURSIVE Digits(_)
\* the decimal digits of a natural number, as str() and format() write them
Digits(n) == IF n < 10 THEN <<DigitChars[n + 1]>>
             ELSE Digits(n \div 10) \o <<DigitChars[(n % 10) + 1]>>

RECURSIVE Pow10(_)
Pow10(k) == IF k = 0 THEN 1 ELSE 10 * Pow10(k - 1)

RECURSIVE ZeroPad(_, _)
\* the digits of n, padded with zeros on the left to k digits
ZeroPad(n, k) == IF k = 0 THEN <<>>
                 ELSE ZeroPad(n \div 10, k - 1) \o <<DigitChars[(n % 10) + 1]>>

\* n / d rounded to the nearest integer, ties to even (n >= 0, d > 0)
RoundHalfEven(n, d) ==
    LET q == n \div d
        r == n % d
    IN  IF 2 * r > d THEN q + 1
        ELSE IF 2 * r < d THEN q
        ELSE q + (q % 2)

\* format(x, ".<k>f") of x = n / 10^places >= 0: the pieces of the number
FixedPoint(n, places, k) ==
    LET q == RoundHalfEven(n, Pow10(places - k))
    IN  Digits(q \div Pow10(k)) \o <<".">> \o ZeroPad(q % Pow10(k), k)

----------------------------------------------------------------------------
(* Floats of the ranking *)

RECURSIVE Pow2(_)
Pow2(k) == IF k <= 0 THEN 1 ELSE 2 * Pow2(k - 1)

RECURSIVE FloorLog2(_, _)
\* the largest e with 2^e * d <= n (n >= d > 0)
FloorLog2(n, d) == IF n < 2 * d THEN 0 ELSE 1 + FloorLog2(n, 2 * d)

\* the float nearest to n / d (n >= 0, d > 0): MantissaBits significant bits,
\* ties to even; below 2^(MantissaBits - 1) the spacing stays 1 (subnormals)
FloatRound(n, d) ==
    IF n < d THEN RoundHalfEven(n, d)
    ELSE LET ulp == Pow2(FloorLog2(n, d) - (MantissaBits - 1))
         IN  ulp * RoundHalfEven(n, d * ulp)

Abs(x) == IF x < 0 THEN 0 - x ELSE x

\* the mean of no value: NaN, written -1 (a mean of |impact| is never negative)
NaN == 0 - 1

IsNaN(x) == x < 0

RECURSIVE FloatSum(_)
\* numpy's sum of a short array: left to right, each addition rounded
FloatSum(s) == IF s = <<>> THEN 0
               ELSE FloatRound(FloatSum(SubSeq(s, 1, Len(s) - 1)) + s[Len(s)], 1)

----------------------------------------------------------------------------
(* build_global_context: the ranking *)

\* the feature identifiers of the model, in ascending (lexicographic) order
FeatureIds == <<"arpu", "tenure">>

Features == {FeatureIds[i] : i \in DOMAIN FeatureIds}

Min(a, b) == IF a <= b THEN a ELSE b

\* An entry of a driver list: kind "ok" is a driver record {feature, value,
\* impact}; "null" is None; "no_feature" and "no_impact" lack that key;
\* "bad_impact" holds a str as its impact.
IsNull(e) == e.kind = "null"

HasFeature(e) == e.kind \in {"ok", "no_impact", "bad_impact"}

HasImpactKey(e) == e.kind \in {"ok", "no_feature", "bad_impact"}

NumericImpact(e) == e.kind \in {"ok", "no_feature"}

\* df["drivers"].explode().dropna(): one row per entry, in order; the NaN
\* row of an empty list and the None entries are dropped
DriversAll(d) == SelectSeq(Concat(d), LAMBDA e : ~IsNull(e))

\* .apply(pd.Series), .groupby("feature")["impact"], .apply(abs().mean()):
\* the exception this raises, "" when none
GroupingError(da) ==
    IF da = <<>> THEN "KeyError"            \* apply on an empty Series stays a Series
    ELSE IF \A i \in DOMAIN da : ~HasFeature(da[i]) THEN "KeyError"      \* no column
    ELSE IF \A i \in DOMAIN da : ~HasImpactKey(da[i]) THEN "KeyError"    \* no column
    ELSE IF \E i \in DOMAIN da : HasFeature(da[i]) /\ HasImpactKey(da[i])
                                  /\ ~NumericImpact(da[i]) THEN "TypeError" \* abs(str)
    ELSE ""

\* a mutant of GroupKeys: groupby(..., sort=False), the keys as first seen
GroupKeysFirstSeen(da) ==
    LET first(f) == CHOOSE i \in DOMAIN da :
                        /\ HasFeature(da[i]) /\ da[i].feature = f
                        /\ \A j \in 1..(i - 1) : ~(HasFeature(da[j]) /\ da[j].feature = f)
        present == {f \in Features : \E i \in DOMAIN da : HasFeature(da[i]) /\ da[i].feature = f}
    IN  [k \in 1..Cardinality(present) |->
            CHOOSE f \in present : Cardinality({g \in present : first(g) < first(f)}) = k - 1]

\* groupby("feature"): the group keys, sorted ascending; rows whose key is
\* missing (NaN) belong to no group
GroupKeys(da) ==
    SelectSeq(FeatureIds,
              LAMBDA f : \E i \in DOMAIN da : HasFeature(da[i]) /\ da[i].feature = f)

\* the rows of group f, in row order
GroupRows(da, f) == SelectSeq(da, LAMBDA e : HasFeature(e) /\ e.feature = f)

\* s.abs().mean() of a group: the missing impacts (NaN) are skipped; the
\* mean of none is NaN
MeanAbs(rows) ==
    LET present == SelectSeq(rows, NumericImpact)
        absolute == AsTuple([i \in 1..Len(present) |-> Abs(present[i].impact)])
    IN  IF present = <<>> THEN NaN
        ELSE FloatRound(FloatSum(absolute), Len(present))

\* a mutant of Before: sort_values() with ascending left at its default
BeforeAscending(means, tie, i, j) ==
    IF IsNaN(means[i]) THEN IsNaN(means[j]) /\ i < j
    ELSE \/ IsNaN(means[j])
         \/ means[i] < means[j]
         \/ means[i] = means[j] /\ tie[i] < tie[j]

\* sort_values(ascending=False): whether position i comes before position j.
\* The default sort (quicksort) is not stable: equal keys come in the order
\* tie gives their positions.  NaN comes last, in position order.
Before(means, tie, i, j) ==
    IF IsNaN(means[i]) THEN IsNaN(means[j]) /\ i < j
    ELSE \/ IsNaN(means[j])
         \/ means[i] > means[j]
         \/ means[i] = means[j] /\ tie[i] < tie[j]

\* the positions of means in sorted order
SortValues(means, tie) ==
    [k \in 1..Len(means) |->
        CHOOSE i \in 1..Len(means) :
            Cardinality({j \in 1..Len(means) : j # i /\ Before(means, tie, j, i)}) = k - 1]

\* .head(n), n >= 1
HeadN(s, n) == SubSeq(s, 1, Min(n, Len(s)))

\* global_importance: the keys with their means, sorted and cut to top_n
GlobalImportance(da, n, tie) ==
    LET keys == GroupKeys(da)
        means == AsTuple([i \in 1..Len(keys) |-> MeanAbs(GroupRows(da, keys[i]))])
        order == AsTuple(SortValues(means, tie))
    IN  HeadN([k \in 1..Len(keys) |-> [feature |-> keys[order[k]], mean |-> means[order[k]]]], n)

\* top_features = list(global_importance.index)
TopFeatures(d, n, tie) ==
    LET gi == GlobalImportance(DriversAll(d), n, tie)
    IN  AsTuple([k \in 1..Len(gi) |-> gi[k].feature])

----------------------------------------------------------------------------
(* build_global_context: the prompt *)

NoDescription == Ln(<<"No", "description", "available.">>)

\* a mutant of Describe: the description of _build_feature_points, which
\* is empty when no playbook is given
DescribeAsPoints(feat, pb) ==
    IF pb.given /\ DOMAIN pb.map # {}
    THEN IF feat \in DOMAIN pb.map THEN pb.map[feat] ELSE NoDescription
    ELSE <<>>

\* the description of a feature: the playbook's when a non-empty playbook
\* holds the feature, the default otherwise
Describe(feat, pb) ==
    IF pb.given /\ DOMAIN pb.map # {} /\ feat \in DOMAIN pb.map
    THEN pb.map[feat]
    ELSE NoDescription

\* f"- {feat}: {desc}"
FeatureLine(feat, desc) == << <<"-">>, <<feat, ":">> >> \o desc

\* lines: one per feature of top_features, in its order
FeatureLines(top, pb) ==
    AsTuple([k \in 1..Len(top) |-> FeatureLine(top[k], Describe(top[k], pb))])

\* helpers.py 44-58: the default rules block, stripped
DefaultRulesText ==
    << Ln(<<"Business", "Rules", "(apply", "consistently):">>),
       Ln(<<"1)", "Window:", "last", "3", "full", "months", "(M-1,", "M-2,", "M-3).">>),
       Ln(<<"2)", "Monthly", "ARPU", "=", "net", "revenue", "paid", "by", "the", "customer", "(top-ups,", "bundles,", "add-ons).", "Exclude", "freebies/bonuses,", "chargebacks,", "and", "adjustments.">>),
       Ln(<<"3)", "Eligibility:", "consumption", ">", "0", "in", "each", "of", "the", "3", "months,", "ARPU_3M_PROM", ">=", "Q80.00,", "and", "no", "commercial", "blocks.">>),
       Ln(<<"4)", "Offer", "mapping", "by", "ARPU_3M_PROM:">>),
       Ln(<<"*", "Q80.00-Q110.99", "->", "PLAN_Q115">>),
       Ln(<<"*", "Q111.00-Q130.99", "->", "PLAN_Q135">>),
       Ln(<<"*", "Q131.00-Q155.99", "->", "PLAN_Q160">>),
       Ln(<<"*", "Q156.00-Q180.99", "->", "PLAN_Q185">>),
       Ln(<<"*", ">=", "Q181.00", "->", "PLAN_Q209">>),
       Ln(<<"5)", "Controlled", "upsell:", "if", "ARPU_3M_PROM", "is", "in", "the", "top", "10%", "of", "its", "band", "and", "all", "three", "monthly", "ARPUs", "are", ">=", "90%", "of", "the", "next", "band's", "lower", "bound,", "offer", "the", "next", "band", "as", "an", "alternative.">>),
       Ln(<<"6)", "Downsell:", "on", "price", "objection,", "offer", "the", "minimum", "of", "the", "current", "band's", "range", "(do", "not", "cross", "down", "a", "band", "unless", "affordability", "constraints", "are", "explicit).">>),
       Ln(<<"7)", "Messaging:", "emphasize", "benefits,", "keep", "price", "within", "the", "assigned", "band,", "and", "anchor", "value", "to", "actual", "spending.">>) >>

\* helpers.py 61-65: persona, purpose and the heading of the feature block
GlobalPromptHead ==
    << Ln(<<"You", "are", "an", "expert", "sales", "advisor", "for", "a", "prepaid", "telecom", "campaign.", "Maximize", "conversions", "with", "sustainable", "offers", "aligned", "to", "each", "customer's", "real", "consumption.">>),
       Ln(<<>>),
       Ln(<<"We", "use", "a", "machine", "learning", "model", "trained", "on", "historical", "behavior", "and", "engagement", "to", "estimate", "the", "probability", "of", "accepting", "an", "offer", "(sale=1).", "A", "higher", "score", "means", "higher", "likelihood", "if", "contacted.">>),
       Ln(<<>>),
       Ln(<<"Most", "influential", "features", "overall", "(by", "mean", "absolute", "impact):">>) >>

\* helpers.py 70-74: the policy footer
GlobalPromptPolicy ==
    << Ln(<<"Policy:">>),
       Ln(<<"-", "Do", "NOT", "reveal", "internal", "model", "weights", "or", "math.">>),
       Ln(<<"-", "Do", "NOT", "invent", "personal/sensitive", "attributes", "beyond", "provided", "data.">>),
       Ln(<<"-", "Keep", "tone", "helpful,", "respectful,", "and", "value-focused.">>),
       Ln(<<"-", "You", "may", "explain", "drivers", "in", "plain", "language,", "but", "never", "mention", "\"model\",", "\"probability\",", "or", "\"SHAP\"", "in", "the", "final", "agent", "script.">>) >>

\* rules_text, the default block when None is given (helpers.py 43-58)
RulesBlock(rt) == IF rt.given THEN rt.text ELSE DefaultRulesText

\* a mutant of GlobalPrompt: the policy footer left out
GlobalPromptNoPolicy(lines, rt) ==
    GlobalPromptHead \o JoinLines(lines) \o << <<>> >> \o RulesBlock(rt)

\* global_prompt: the template with features_block and rules_text filled in
GlobalPrompt(lines, rt) ==
    GlobalPromptHead \o JoinLines(lines) \o << <<>> >> \o RulesBlock(rt)
        \o << <<>> >> \o GlobalPromptPolicy

----------------------------------------------------------------------------
(* _build_feature_points and build_customer_prompt *)

\* whether a comes before b in sorted(driver_list, key=abs(impact),
\* reverse=True): Python's sort is stable, equal keys keep their order
PointsBefore(dl, i, j) ==
    \/ Abs(dl[i].impact) > Abs(dl[j].impact)
    \/ Abs(dl[i].impact) = Abs(dl[j].impact) /\ i < j

\* sorted_drivers[:5]
SortedDrivers(dl) ==
    LET sorted == AsTuple([k \in 1..Len(dl) |->
                      dl[CHOOSE i \in 1..Len(dl) :
                             Cardinality({j \in 1..Len(dl) : j # i /\ PointsBefore(dl, j, i)}) = k - 1]])
    IN  SubSeq(sorted, 1, Min(5, Len(sorted)))

\* _build_feature_points: f"{i}) {feature}: {description}" for the five
\* drivers of largest |impact|
BuildFeaturePoints(dl, pb) ==
    LET top == SortedDrivers(dl)
        description(f) == IF pb.given /\ DOMAIN pb.map # {}
                          THEN IF f \in DOMAIN pb.map THEN pb.map[f] ELSE NoDescription
                          ELSE <<>>
    IN  [i \in 1..Len(top) |->
            << Digits(i) \o <<")">>, <<top[i].feature, ":">> >> \o description(top[i].feature)]

\* format(x, "+.3f") of an impact in units of 0.0001: the sign, always written
SignedImpact(x) == <<IF x < 0 THEN "-" ELSE "+">> \o FixedPoint(Abs(x), 4, 3)

\* f"- {d['feature']}: value={d['value']}, impact={d['impact']:+.3f}"
DriverLine(d) ==
    << <<"-">>,
       <<d.feature, ":">>,
       <<"value=">> \o Digits(d.value) \o <<",">>,
       <<"impact=">> \o SignedImpact(d.impact) >>

\* a mutant of DriverLines: the drivers sorted by |impact| and cut to five
DriverLinesTopFive(dl) ==
    LET top == SortedDrivers(dl)
    IN  [i \in 1..Len(top) |-> DriverLine(top[i])]

\* driver_lines: one line per driver, in the order given
DriverLines(dl) == AsTuple([i \in 1..Len(dl) |-> DriverLine(dl[i])])

\* context_lines: f"{col} = {row[col]}" for the columns the row holds
ContextLines(r, cols) ==
    IF cols.given /\ cols.cols # <<>>
    THEN LET held == SelectSeq(cols.cols, LAMBDA c : c \in r.keys)
         IN  [i \in 1..Len(held) |-> << <<held[i]>>, <<"=">>, <<r.attrs[held[i]]>> >>]
    ELSE <<>>

\* context_block
ContextBlock(r, cols) ==
    IF ContextLines(r, cols) # <<>> THEN ContextLines(r, cols)
    ELSE << Ln(<<"No", "additional", "context.">>) >>

\* name_value
NameValue(r, nf) == IF nf.given /\ nf.field \in r.keys THEN r.attrs[nf.field] ELSE "Customer"

\* a mutant of Percent: one decimal
PercentOneDecimal(r) ==
    IF "proba" \in r.keys THEN FixedPoint(r.proba, 3, 1) \o <<"%">>
    ELSE <<"n", "a", "n", "%">>

\* format(row.get('proba', nan), ".2%") of a probability in units of 0.00001
Percent(r) ==
    IF "proba" \in r.keys THEN FixedPoint(r.proba, 3, 2) \o <<"%">>
    ELSE <<"n", "a", "n", "%">>

\* helpers.py 150-188: the task instructions and the output-format heading
CustomerTaskLines ==
    << Ln(<<"[Task]">>),
       Ln(<<"Analyze", "these", "top", "5", "features", "from", "highest", "to", "lowest", "impact,", "using", "ONLY", "their", "values", "and", "impacts:">>),
       Ln(<<>>),
       Ln(<<"1)", "Feature", "Analysis", "(Most", "Impactful):">>),
       Ln(<<"-", "Feature", "Context:", "Use", "the", "playbook", "description", "to", "understand", "what", "this", "raw", "metric", "means">>),
       Ln(<<"-", "Current", "Value:", "Interpret", "the", "specific", "value", "provided">>),
       Ln(<<"-", "Impact", "Direction:", "Consider", "if", "the", "impact", "is", "positive/negative", "for", "conversion">>),
       Ln(<<"-", "Action", "Insight:", "Determine", "specific", "actions", "based", "on", "this", "feature's", "influence">>),
       Ln(<<>>),
       Ln(<<"2)", "Secondary", "Pattern:">>),
       Ln(<<"-", "Feature", "Context:", "Reference", "the", "playbook", "meaning", "for", "this", "raw", "metric">>),
       Ln(<<"-", "Value", "Analysis:", "Evaluate", "the", "concrete", "measurement", "provided">>),
       Ln(<<"-", "Impact", "Interpretation:", "Understand", "how", "this", "affects", "customer", "decision">>),
       Ln(<<"-", "Usage", "Pattern:", "Extract", "behavioral", "insights", "from", "this", "data", "point">>),
       Ln(<<>>),
       Ln(<<"3)", "Supporting", "Evidence:">>),
       Ln(<<"-", "Feature", "Context:", "Apply", "the", "playbook", "definition">>),
       Ln(<<"-", "Data", "Point", "Analysis:", "Break", "down", "what", "the", "value", "indicates">>),
       Ln(<<"-", "Impact", "Assessment:", "Connect", "impact", "direction", "to", "customer", "behavior">>),
       Ln(<<"-", "Pattern", "Recognition:", "Identify", "relevant", "trends", "from", "this", "metric">>),
       Ln(<<>>),
       Ln(<<"4)", "Behavioral", "Marker:">>),
       Ln(<<"-", "Feature", "Context:", "Consider", "the", "playbook", "explanation">>),
       Ln(<<"-", "Value", "Significance:", "Analyze", "what", "this", "measurement", "reveals">>),
       Ln(<<"-", "Impact", "Contribution:", "How", "this", "shapes", "customer", "response">>),
       Ln(<<"-", "Behavioral", "Insight:", "Extract", "actionable", "understanding">>),
       Ln(<<>>),
       Ln(<<"5)", "Final", "Indicator:">>),
       Ln(<<"-", "Feature", "Context:", "Use", "the", "playbook", "to", "frame", "this", "metric">>),
       Ln(<<"-", "Value", "Review:", "What", "does", "this", "specific", "measurement", "tell", "us">>),
       Ln(<<"-", "Impact", "Role:", "How", "this", "influences", "overall", "likelihood">>),
       Ln(<<"-", "Opportunity", "Signal:", "Identify", "potential", "based", "on", "this", "data">>),
       Ln(<<>>),
       Ln(<<"Then", "provide", "a", "data-driven", "synthesis:">>),
       Ln(<<"-", "Evidence", "Summary:", "Combine", "insights", "from", "ALL", "5", "features,", "with", "their", "specific", "values">>),
       Ln(<<"-", "Value", "Connection:", "Link", "each", "feature's", "impact", "to", "concrete", "benefits">>),
       Ln(<<"-", "Action", "Strategy:", "Propose", "steps", "based", "on", "the", "analyzed", "feature", "set">>),
       Ln(<<>>),
       Ln(<<"[Output", "Format]">>) >>

\* helpers.py 190-205: the five ranked slots and the summary
CustomerFormatLines ==
    << Ln(<<>>),
       Ln(<<"Feature", "Impact", "Summary:">>),
       Ln(<<"1.", "Primary", "Driver:", "[Feature", "Name]", "Value:", "[Raw", "Metric]", "|", "Key", "Insight:", "[Based", "on", "Playbook]">>),
       Ln(<<>>),
       Ln(<<"2.", "Secondary", "Driver:", "[Feature", "Name]", "|Value:", "[Raw", "Metric]", "|", "Key", "Insight:", "[Based", "on", "Playbook]">>),
       Ln(<<>>),
       Ln(<<"3.", "Tertiary", "Driver:", "[Feature", "Name]", "|", "Value:", "[Raw", "Metric]", "|", "Key", "Insight:", "[Based", "on", "Playbook]">>),
       Ln(<<>>),
       Ln(<<"4.", "Fourth", "Driver:", "[Feature", "Name]", "|", "Value:", "[Raw", "Metric]", "|", "Key", "Insight:", "[Based", "on", "Playbook]">>),
       Ln(<<>>),
       Ln(<<"5.", "Fifth", "Driver:", "[Feature", "Name]", "|", "Value:", "[Raw", "Metric]", "|", "Key", "Insight:", "[Based", "on", "Playbook]">>),
       Ln(<<>>),
       Ln(<<"Evidence-Based", "Summary:">>),
       Ln(<<"*", "Patterns:", "[Key", "findings", "from", "top", "3", "features]">>),
       Ln(<<"*", "Profile:", "[Customer", "behavior", "based", "on", "values]">>),
       Ln(<<"*", "Actions:", "[Data-supported", "recommendations]">>) >>

\* the prompt's template around a block of driver lines
CustomerTemplate(r, block, cols, nf) ==
    << Ln(<<"[Customer", "Context]">>),
       Ln(<<"-", "Acceptance", "likelihood", "(score):">>) \o <<Percent(r)>>,
       Ln(<<"-", "Attributes:">>) >>
    \o ContextBlock(r, cols)
    \o << <<>>, Ln(<<"-", "Top", "influencing", "factors", "for", "this", "specific", "customer:">>) >>
    \o block
    \o << <<>> >>
    \o CustomerTaskLines
    \o << Ln(<<"Customer", "Analysis", "for">>) \o << <<NameValue(r, nf), ":">> >> >>
    \o CustomerFormatLines

\* a mutant of CustomerPrompt: the factors rendered by _build_feature_points
CustomerPromptWithPoints(r, dl, cols, nf, pb) ==
    CustomerTemplate(r, JoinLines(BuildFeaturePoints(dl, pb)), cols, nf)

\* prompt: feature_playbook (pb) is not read
CustomerPrompt(r, dl, cols, nf, pb) ==
    CustomerTemplate(r, JoinLines(DriverLines(dl)), cols, nf)

----------------------------------------------------------------------------
(* The inputs tried *)

SeqsUpTo(S, n) == UNION {[1..k -> S] : k \in 0..n}

Perms(n) == {p \in [1..n -> 1..n] : \A i, j \in 1..n : p[i] = p[j] => i = j}

\* impacts of a batch: floats of at most MantissaBits bits
Impacts == {0 - 6, 7}

OkEntry(f, v) == [kind |-> "ok", feature |-> f, impact |-> v]

OkEntries == {OkEntry(f, v) : f \in Features, v \in Impacts}

\* the driver lists of one customer: each feature at most once
CleanDriverLists ==
    {l \in SeqsUpTo(OkEntries, MaxDrivers) :
        \A i, j \in DOMAIN l : l[i].feature = l[j].feature => i = j}

CleanBatches == SeqsUpTo(CleanDriverLists, MaxCustomers)

PromptBatches == SeqsUpTo(CleanDriverLists, MaxPromptCustomers)

\* entries of a batch from partial upstream data
DirtyEntries ==
    { OkEntry("arpu", 5), OkEntry("arpu", 7), OkEntry("tenure", 0 - 6),
      [kind |-> "null", feature |-> "", impact |-> 0],
      [kind |-> "no_feature", feature |-> "", impact |-> 5],
      [kind |-> "no_impact", feature |-> "arpu", impact |-> 0],
      [kind |-> "no_impact", feature |-> "tenure", impact |-> 0],
      [kind |-> "bad_impact", feature |-> "tenure", impact |-> 0] }

DirtyBatches == SeqsUpTo(SeqsUpTo(DirtyEntries, MaxDrivers), MaxDirtyCustomers)

NoPlaybook == [given |-> FALSE, map |-> <<>>]

EmptyPlaybook == [given |-> TRUE, map |-> <<>>]

ArpuDescription == Ln(<<"Average", "spend", "over", "90", "days">>)

TenureDescription == Ln(<<"Months", "on", "the", "network;", "not", "model", "weights">>)

Playbooks ==
    { NoPlaybook, EmptyPlaybook,
      [given |-> TRUE, map |-> [f \in {"arpu"} |-> ArpuDescription]],
      [given |-> TRUE, map |-> [f \in {"tenure"} |-> TenureDescription]],
      [given |-> TRUE, map |-> [f \in Features |->
                                   IF f = "arpu" THEN ArpuDescription ELSE TenureDescription]] }

NoRules == [given |-> FALSE, text |-> << <<>> >>]

RulesTexts ==
    { NoRules,
      [given |-> TRUE, text |-> << Ln(<<"Offer", "PLAN_Q115", "only.">>) >>],
      [given |-> TRUE, text |-> << Ln(<<"Rules:">>),
                                   Ln(<<"Never", "quote", "model", "weights", "to", "agents.">>) >>] }

\* probabilities in units of 0.00001, none of them halfway between two
\* hundredths of a percent
Probas == {0, 4321, 82340, 82346, 100000}

Rows ==
    {[keys |-> k, proba |-> p, attrs |-> [a \in {"region", "name"} |->
                                             IF a = "region" THEN "Peten" ELSE "Ana"]] :
        k \in {{"proba"}, {"proba", "region"}, {"proba", "region", "name"}}, p \in Probas}
    \cup {[keys |-> {"region", "name"}, proba |-> 0,
           attrs |-> [a \in {"region", "name"} |-> IF a = "region" THEN "Peten" ELSE "Ana"]]}

\* drivers of a customer prompt: impacts in units of 0.0001
CustomerDrivers ==
    { [feature |-> "arpu", value |-> 8, impact |-> 0 - 4],
      [feature |-> "tenure", value |-> 12, impact |-> 12346] }

DriverListsTried == SeqsUpTo(CustomerDrivers, MaxDriverList)

ContextCols ==
    { [given |-> FALSE, cols |-> <<>>], [given |-> TRUE, cols |-> <<>>],
      [given |-> TRUE, cols |-> <<"region">>],
      [given |-> TRUE, cols |-> <<"name", "region">>] }

NameFields == {[given |-> FALSE, field |-> ""], [given |-> TRUE, field |-> "name"]}

CustomerPlaybooks ==
    { NoPlaybook, EmptyPlaybook,
      [given |-> TRUE, map |-> [f \in {"tenure"} |-> TenureDescription]] }

----------------------------------------------------------------------------
(* The calls *)

NoResults ==
    /\ pc = "start" /\ error = ""
    /\ top_features = <<>> /\ features_lines = <<>> /\ global_prompt = <<>>
    /\ driver_lines = <<>> /\ prompt = <<>>

NoCustomerCall ==
    /\ row = [keys |-> {}, proba |-> 0, attrs |-> <<>>]
    /\ driver_list = <<>>
    /\ extra_context_cols = [given |-> FALSE, cols |-> <<>>]
    /\ name_field = [given |-> FALSE, field |-> ""]
    /\ cust_playbook = NoPlaybook

NoGlobalCall ==
    /\ df = <<>> /\ feature_playbook = NoPlaybook /\ top_n = 10
    /\ rules_text = NoRules /\ tie_order = <<>>

\* a call of build_global_context(df, feature_playbook, top_n, rules_text)
InitGlobal(batches, playbooks, rules) ==
    /\ df \in batches
    /\ feature_playbook \in playbooks
    /\ top_n \in 1..MaxTopN
    /\ rules_text \in rules
    /\ tie_order \in Perms(Len(FeatureIds))
    /\ NoCustomerCall
    /\ NoResults

\* build_global_context returns (helpers.py 13-77)
GlobalContextReturns ==
    /\ pc = "start"
    /\ GroupingError(DriversAll(df)) = ""
    /\ LET top == TopFeatures(df, top_n, tie_order)
           lines == FeatureLines(top, feature_playbook)
       IN  /\ top_features' = top
           /\ features_lines' = lines
           /\ global_prompt' = GlobalPrompt(lines, rules_text)
    /\ pc' = "returned"
    /\ UNCHANGED << global_inputs, customer_inputs, customer_results, error >>

\* build_global_context raises inside the ranking (helpers.py 13-27)
GlobalContextRaises ==
    /\ pc = "start"
    /\ GroupingError(DriversAll(df)) # ""
    /\ error' = GroupingError(DriversAll(df))
    /\ pc' = "raised"
    /\ UNCHANGED << global_inputs, customer_inputs, global_results, customer_results >>

NextGlobal == GlobalContextReturns \/ GlobalContextRaises

\* a call of build_customer_prompt(row, driver_list, extra_context_cols,
\* name_field, feature_playbook)
InitCustomer ==
    /\ row \in Rows
    /\ driver_list \in DriverListsTried
    /\ extra_context_cols \in ContextCols
    /\ name_field \in NameFields
    /\ cust_playbook \in CustomerPlaybooks
    /\ NoGlobalCall
    /\ NoResults

\* build_customer_prompt returns (helpers.py 121-208)
CustomerPromptReturns ==
    /\ pc = "start"
    /\ driver_lines' = DriverLines(driver_list)
    /\ prompt' = CustomerPrompt(row, driver_list, extra_context_cols, name_field, cust_playbook)
    /\ pc' = "returned"
    /\ UNCHANGED << global_inputs, customer_inputs, global_results, error >>

NextCustomer == CustomerPromptReturns

\* the ranking of batches of driver records
InitRank == InitGlobal(CleanBatches, {NoPlaybook}, {NoRules})

SpecRank == InitRank /\ [][NextGlobal]_vars

\* the ranking of batches with malformed entries
InitDirty == InitGlobal(DirtyBatches, {NoPlaybook}, {NoRules})

SpecDirty == InitDirty /\ [][NextGlobal]_vars

\* the global prompt
InitPrompt == InitGlobal(PromptBatches, Playbooks, RulesTexts)

SpecPrompt == InitPrompt /\ [][NextGlobal]_vars

\* the customer prompt
SpecCustomer == InitCustomer /\ [][NextCustomer]_vars

----------------------------------------------------------------------------
(* The claims *)

\* the driver records of feature f in the flattened batch, in order
RecordsOf(d, f) == SelectSeq(Concat(d), LAMBDA e : e.kind = "ok" /\ e.feature = f)

PresentFeatures(d) == {f \in Features : RecordsOf(d, f) # <<>>}

\* the mean |impact| of feature f over all driver records of the batch
MeanImpact(d, f) == MeanAbs(RecordsOf(d, f))

\* every entry of the batch is a driver record
WellFormed(d) == \A c \in DOMAIN d : \A i \in DOMAIN d[c] : d[c][i].kind = "ok"

Listed == {top_features[k] : k \in DOMAIN top_features}

\* the place of the first record of feature f in the flattened batch
FirstSeen(d, f) ==
    CHOOSE i \in DOMAIN Concat(d) :
        /\ Concat(d)[i].kind = "ok" /\ Concat(d)[i].feature = f
        /\ \A j \in 1..(i - 1) : ~(Concat(d)[j].kind = "ok" /\ Concat(d)[j].feature = f)

\* the place of feature f among the batch's features in ascending order
KeyPosition(d, f) ==
    Cardinality({g \in PresentFeatures(d) :
                    \E i, j \in DOMAIN FeatureIds :
                        FeatureIds[i] = g /\ FeatureIds[j] = f /\ i <= j})

Permute(d, p) == [i \in 1..Len(d) |-> d[p[i]]]

\* the batch without its malformed entries
Cleaned(d) == [c \in 1..Len(d) |-> SelectSeq(d[c], LAMBDA e : e.kind = "ok")]

ModelWeights == Ln(<<"model", "weights">>)

IsDigit(c) == c \in {DigitChars[i] : i \in DOMAIN DigitChars}

\* digits, ".", two digits, "%"
IsPercentWord(w) ==
    /\ Len(w) >= 5
    /\ w[Len(w)] = "%"
    /\ IsDigit(w[Len(w) - 1]) /\ IsDigit(w[Len(w) - 2])
    /\ w[Len(w) - 3] = "."
    /\ \A i \in 1..(Len(w) - 4) : IsDigit(w[i])

\* the rendering of the acceptance likelihood in the customer prompt
LikelihoodWord == prompt[2][5]

TopFactorsHeading ==
    Ln(<<"-", "Top", "influencing", "factors", "for", "this", "specific", "customer:">>)

\* C1: for a batch with at least one driver record and top_n >= 1, the call
\* returns and the listed features are distinct features of the batch,
\* exactly min(top_n, number of distinct features) of them, in
\* non-increasing order of mean |impact| over all records of the batch (a
\* feature seen once counts with its single value), and no omitted feature
\* has a strictly larger mean than a listed one.
C1_RankingTopN ==
    (pc # "start" /\ WellFormed(df) /\ Concat(df) # <<>>) =>
        /\ pc = "returned"
        /\ \A i, j \in DOMAIN top_features : top_features[i] = top_features[j] => i = j
        /\ Listed \subseteq PresentFeatures(df)
        /\ Len(top_features) = Min(top_n, Cardinality(PresentFeatures(df)))
        /\ \A i, j \in DOMAIN top_features :
              i < j => MeanImpact(df, top_features[i]) >= MeanImpact(df, top_features[j])
        /\ \A f \in PresentFeatures(df) \ Listed : \A g \in Listed :
              MeanImpact(df, f) <= MeanImpact(df, g)
        /\ \A f \in PresentFeatures(df) :
              Len(RecordsOf(df, f)) = 1 => MeanImpact(df, f) = Abs(RecordsOf(df, f)[1].impact)

\* C1's case: two features of different means, one of them with records of
\* several customers, cut to the top one
C1_Witness ==
    /\ pc = "returned" /\ top_n = 1
    /\ PresentFeatures(df) = Features
    /\ MeanImpact(df, "tenure") > MeanImpact(df, "arpu")
    /\ Len(RecordsOf(df, "tenure")) = 3 /\ Len(RecordsOf(df, "arpu")) = 1
    /\ top_features = <<"tenure">>

C3_CustomerOrderInvariant ==
    (pc = "returned" /\ WellFormed(df)) =>
        \A p \in Perms(Len(df)) : TopFeatures(Permute(df, p), top_n, tie_order) = top_features

\* C4: on a batch with no driver record at all the call does not raise; it
\* yields an empty ranking and a feature block of no lines.
C4_EmptyBatchReturns ==
    (pc # "start" /\ DriversAll(df) = <<>>) =>
        /\ pc = "returned"
        /\ top_features = <<>>
        /\ features_lines = <<>>

\* C5: on a batch with malformed entries (and at least one driver record)
\* the call does not fail, and its ranking is that of the batch with the
\* malformed entries removed.
C5_MalformedDropped ==
    (pc # "start" /\ ~WellFormed(df) /\ Concat(Cleaned(df)) # <<>>) =>
        /\ pc = "returned"
        /\ top_features = TopFeatures(Cleaned(df), top_n, tie_order)

\* C6, as claimed: the global prompt never contains "model weights".
C6_NoModelWeights ==
    pc = "returned" => ~ContainsPhrase(global_prompt, ModelWeights)

\* C6, amended: the global prompt always contains "model weights", in the
\* line "- Do NOT reveal internal model weights or math." of its policy
\* footer; before the footer it contains it exactly when the rules_text
\* given or a listed feature's description does.
C6_ModelWeightsInPolicy ==
    pc = "returned" =>
        LET n == Len(global_prompt)
            body == SubSeq(global_prompt, 1, n - 5)
        IN  /\ n > 5
            /\ global_prompt[n - 3] =
                   Ln(<<"-", "Do", "NOT", "reveal", "internal", "model", "weights", "or", "math.">>)
            /\ ContainsPhrase(global_prompt, ModelWeights)
            /\ ContainsPhrase(body, ModelWeights) <=>
                   \/ rules_text.given /\ ContainsPhrase(rules_text.text, ModelWeights)
                   \/ ContainsPhrase(features_lines, ModelWeights)

\* C6's case: the default rules and no playbook, so that only the footer
\* holds the phrase
C6_Witness ==
    /\ pc = "returned" /\ ~rules_text.given /\ ~feature_playbook.given
    /\ Len(top_features) = 2
    /\ ContainsPhrase(global_prompt, ModelWeights)

\* C7, as claimed: for every record, one without a 'proba' entry included,
\* the acceptance likelihood is rendered as digits, ".", two digits, "%".
C7_PercentAlways ==
    pc = "returned" => IsPercentWord(LikelihoodWord)

\* C7, amended: for every record with a 'proba' entry the acceptance
\* likelihood is rendered as digits, ".", two digits, "%" (0.8234 as
\* "82.34%"); for a record without one it is rendered as "nan%".
C7_PercentOfProba ==
    pc = "returned" =>
        /\ "proba" \in row.keys => IsPercentWord(LikelihoodWord)
        /\ ("proba" \in row.keys /\ row.proba = 82340)
              => LikelihoodWord = <<"8", "2", ".", "3", "4", "%">>
        /\ "proba" \notin row.keys => LikelihoodWord = <<"n", "a", "n", "%">>

\* C7's case: the probability 0.8234
C7_Witness ==
    /\ pc = "returned" /\ "proba" \in row.keys /\ row.proba = 82340
    /\ prompt[2] = Ln(<<"-", "Acceptance", "likelihood", "(score):">>)
                       \o << <<"8", "2", ".", "3", "4", "%">> >>

\* C8: the feature block of the global prompt holds exactly one line per
\* ranked feature, in ranked order, each "- {feature}: {description}" with
\* the playbook's entry when a playbook is given and holds the feature, and
\* "No description available." otherwise.
C8_FeatureBlock ==
    pc = "returned" =>
        LET h == Len(GlobalPromptHead)
            n == Len(top_features)
            description(f) ==
                IF feature_playbook.given /\ f \in DOMAIN feature_playbook.map
                THEN feature_playbook.map[f]
                ELSE Ln(<<"No", "description", "available.">>)
        IN  /\ Len(features_lines) = n
            /\ \A k \in 1..n :
                  features_lines[k] =
                      << <<"-">>, <<top_features[k], ":">> >> \o description(top_features[k])
            /\ n >= 1
            /\ SubSeq(global_prompt, h + 1, h + n) = features_lines
            /\ global_prompt[h] = Ln(<<"Most", "influential", "features", "overall",
                                       "(by", "mean", "absolute", "impact):">>)
            /\ global_prompt[h + n + 1] = <<>>

\* C8's case: two features ranked against the order of their names, the
\* playbook holding the second and lacking the first
C8_Witness ==
    /\ pc = "returned" /\ top_features = <<"tenure", "arpu">>
    /\ feature_playbook.given /\ DOMAIN feature_playbook.map = {"arpu"}
    /\ features_lines[1] = Ln(<<"-">>) \o << <<"tenure", ":">> >>
                               \o Ln(<<"No", "description", "available.">>)
    /\ features_lines[2] = Ln(<<"-">>) \o << <<"arpu", ":">> >> \o ArpuDescription

\* C9: for a driver list of any length the call returns and the driver
\* block holds exactly one line per driver, in the order given (not sorted
\* by |impact|, not cut to five), each with the driver's feature, value and
\* signed impact.
C9_DriverBlock ==
    pc # "start" =>
        LET n == Len(driver_list)
            m == IF n = 0 THEN 1 ELSE n
            h == CHOOSE i \in DOMAIN prompt : prompt[i] = TopFactorsHeading
        IN  /\ pc = "returned"
            /\ Len(driver_lines) = n
            /\ \A i \in 1..n :
                  /\ driver_lines[i] = DriverLine(driver_list[i])
                  /\ driver_lines[i][2] = <<driver_list[i].feature, ":">>
                  /\ prompt[h + i] = driver_lines[i]
            /\ n = 0 => prompt[h + 1] = <<>>
            /\ prompt[h + m + 1] = <<>>
            /\ prompt[h + m + 2] = Ln(<<"[Task]">>)

\* C9's case: six drivers, the smaller |impact| first
C9_Witness ==
    /\ pc = "returned" /\ Len(driver_list) = 6
    /\ driver_list[1].feature = "arpu" /\ driver_list[2].feature = "tenure"
    /\ driver_lines[1] = << <<"-">>, <<"arpu", ":">>, <<"value=", "8", ",">>,
                            <<"impact=", "-", "0", ".", "0", "0", "0">> >>
    /\ driver_lines[2] = << <<"-">>, <<"tenure", ":">>, <<"value=", "1", "2", ",">>,
                            <<"impact=", "+", "1", ".", "2", "3", "5">> >>
    /\ Len(driver_lines) = 6

\* C10: the customer prompt does not depend on feature_playbook: with any
\* other playbook the same prompt is returned, and no line of
\* _build_feature_points is a line of the prompt.
C10_PlaybookIgnored ==
    pc = "returned" =>
        /\ \A pb \in CustomerPlaybooks :
              CustomerPrompt(row, driver_list, extra_context_cols, name_field, pb) = prompt
        /\ \A pb \in CustomerPlaybooks :
              LET points == BuildFeaturePoints(driver_list, pb)
              IN  \A k \in DOMAIN points : \A i \in DOMAIN prompt : prompt[i] # points[k]

\* C10's case: a playbook that describes a driver of the list
C10_Witness ==
    /\ pc = "returned" /\ cust_playbook.given /\ "tenure" \in DOMAIN cust_playbook.map
    /\ \E i \in DOMAIN driver_list : driver_list[i].feature = "tenure"
    /\ Len(driver_list) > 5

====
